---- MODULE Spec2Model ----
(***************************************************************************)
(* Model of src/python/src/server/api_routes/internal_api.py (Archon):     *)
(* the IP/CIDR origin check is_internal_request and the two credential     *)
(* endpoints get_agent_credentials and get_mcp_credentials.                *)
(*                                                                         *)
(* Python values: None is the empty tuple, a non-None value x is <<x>>.    *)
(* A text (a client host, a CIDR entry, one chunk of the environment       *)
(* string) is a record [form, name, parts, prefix]:                        *)
(*   form "name"  : a non-numeric string, name is the string itself        *)
(*   form "v4"    : dotted text, parts are the decimal fields              *)
(*   form "v6"    : colon text, parts are the 16-bit groups                *)
(*   form "comma", "space" : the separator characters of the env string    *)
(*   prefix       : the number after "/", NoSlash when there is no "/"     *)
(***************************************************************************)
EXTENDS Integers, Sequences, FiniteSets, TLC

VARIABLES
    env,        \* os.environ["ALLOWED_INTERNAL_CIDRS"], a sequence of chunks
    mcpPort,    \* os.environ["ARCHON_MCP_PORT"]: None or <<port>>
    probe,      \* classifier run: the request handed to is_internal_request
    verdict,    \* classifier run: None, or <<outcome of is_internal_request>>
    epoch,      \* secret store: number of changes its contents went through
    req,        \* per request: None, or <<[endpoint, request]>>
    pc,         \* per request: "idle", "awaiting", "done"
    idx,        \* per request: position in the profile of the awaited entry
    acc,        \* per request: the credentials dict under construction
    issued,     \* per request: keys handed to credential_service, in order
    answers,    \* per request: what credential_service answered, in order
    resp        \* per request: None, or <<[status, detail, body]>>

vars == <<env, mcpPort, probe, verdict, epoch, req, pc, idx, acc, issued, answers, resp>>

None == <<>>
Some(x) == <<x>>

NoSlash == 0 - 1

Text(form, name, parts, prefix) ==
    [form |-> form, name |-> name, parts |-> parts, prefix |-> prefix]

Name(s) == Text("name", s, <<>>, NoSlash)
V4(a, b, c, d) == Text("v4", "", <<a, b, c, d>>, NoSlash)
V6(groups) == Text("v6", "", groups, NoSlash)
Cidr(t, p) == [t EXCEPT !.prefix = p]

Comma == Text("comma", ",", <<>>, NoSlash)
Space == Text("space", " ", <<>>, NoSlash)

Min(a, b) == IF a < b THEN a ELSE b
Max(a, b) == IF a > b THEN a ELSE b

RECURSIVE Pow2(_)
Pow2(n) == IF n = 0 THEN 1 ELSE 2 * Pow2(n - 1)

----
(* ipaddress.ip_address / ipaddress.ip_network *)

ValueError == [ok |-> FALSE]

GroupWidth(version) == IF version = 4 THEN 8 ELSE 16
GroupCount(version) == IF version = 4 THEN 4 ELSE 8
MaxPrefix(version) == GroupWidth(version) * GroupCount(version)

WellFormedGroups(t, version) ==
    /\ Len(t.parts) = GroupCount(version)
    /\ \A i \in 1..Len(t.parts) : t.parts[i] \in 0..(Pow2(GroupWidth(version)) - 1)

\* ip_address(text): an IPv4Address, else an IPv6Address, else ValueError
ip_address(t) ==
    IF t.prefix # NoSlash THEN ValueError
    ELSE IF t.form = "v4" /\ WellFormedGroups(t, 4)
        THEN [ok |-> TRUE, version |-> 4, groups |-> t.parts]
    ELSE IF t.form = "v6" /\ WellFormedGroups(t, 6)
        THEN [ok |-> TRUE, version |-> 6, groups |-> t.parts]
    ELSE ValueError

\* number of netmask bits that fall in group i (1-based) of a /p netmask
MaskBits(p, i, w) == Max(0, Min(w, p - (i - 1) * w))

\* groups & netmask(/p)
AndNetmask(groups, p, w) ==
    [i \in 1..Len(groups) |->
        LET low == Pow2(w - MaskBits(p, i, w))
        IN  (groups[i] \div low) * low]

\* variant: strict parsing, a text with host bits set is rejected
NetworkOfStrict(t, version) ==
    LET p == IF t.prefix = NoSlash THEN MaxPrefix(version) ELSE t.prefix
    IN  IF /\ WellFormedGroups(t, version)
           /\ p \in 0..MaxPrefix(version)
           /\ AndNetmask(t.parts, p, GroupWidth(version)) = t.parts
        THEN [ok |-> TRUE, version |-> version, prefixlen |-> p,
              network_address |-> t.parts]
        ELSE ValueError

NetworkOf(t, version) ==
    LET p == IF t.prefix = NoSlash THEN MaxPrefix(version) ELSE t.prefix
    IN  IF WellFormedGroups(t, version) /\ p \in 0..MaxPrefix(version)
        THEN [ok |-> TRUE, version |-> version, prefixlen |-> p,
              network_address |-> AndNetmask(t.parts, p, GroupWidth(version))]
        ELSE ValueError

\* ip_network(text, strict=False): host bits are masked off, not rejected
ip_network(t) ==
    IF t.form = "v4" THEN NetworkOf(t, 4)
    ELSE IF t.form = "v6" THEN NetworkOf(t, 6)
    ELSE ValueError

\* ip in net  (_BaseNetwork.__contains__)
Contains(net, ip) ==
    /\ net.version = ip.version
    /\ AndNetmask(ip.groups, net.prefixlen, GroupWidth(net.version)) = net.network_address

----
(* the allow-set *)

DEFAULT_ALLOWED_CIDRS == <<
    Cidr(V4(127, 0, 0, 0), 8),
    Cidr(V6(<<0, 0, 0, 0, 0, 0, 0, 1>>), 128),
    Cidr(V4(10, 0, 0, 0), 8),
    Cidr(V4(172, 16, 0, 0), 12),
    Cidr(V4(192, 168, 0, 0), 16),
    Cidr(V4(100, 64, 0, 0), 10) >>

\* str.split(","): the pieces between the commas, empty pieces included
RECURSIVE Split(_)
Split(s) ==
    IF \A i \in 1..Len(s) : s[i] # Comma THEN <<s>>
    ELSE LET i == CHOOSE j \in 1..Len(s) :
                      s[j] = Comma /\ \A k \in 1..(j - 1) : s[k] # Comma
         IN  <<SubSeq(s, 1, i - 1)>> \o Split(SubSeq(s, i + 1, Len(s)))

\* str.strip(): leading and trailing blanks removed
RECURSIVE Strip(_)
Strip(s) ==
    IF s = <<>> THEN s
    ELSE IF Head(s) = Space THEN Strip(Tail(s))
    ELSE IF s[Len(s)] = Space THEN Strip(SubSeq(s, 1, Len(s) - 1))
    ELSE s

\* one stripped piece read as the text ip_network receives: a piece made of
\* exactly one chunk is that chunk, anything longer is no address at all
AsText(piece) ==
    IF Len(piece) = 1 THEN piece[1] ELSE Name("<joined>")

\* [c.strip() for c in extra.split(",") if c.strip()]
ExtraCidrs(extra) ==
    LET pieces == Split(extra)
        kept == SelectSeq(pieces, LAMBDA c : Strip(c) # <<>>)
    IN  [i \in 1..Len(kept) |-> AsText(Strip(kept[i]))]

AllowedCidrsOf(extra) == DEFAULT_ALLOWED_CIDRS \o ExtraCidrs(extra)

_get_allowed_cidrs == AllowedCidrsOf(env)

----
(* is_internal_request *)

Request(client) == [client |-> client]
Address(host) == [host |-> host]

\* variant: the host name is compared without regard to case
LocalhostNamesLoose == {Name("localhost"), Name("LOCALHOST")}

LocalhostNames == {Name("localhost")}

Falsy(x) == x = None \/ x = Some(Name(""))

\* variant: an invalid entry ends the loop instead of being skipped
RECURSIVE MatchFromAbort(_, _, _)
MatchFromAbort(ip, cidrs, i) ==
    IF i > Len(cidrs) THEN None
    ELSE LET net == ip_network(cidrs[i])
         IN  IF ~net.ok THEN None
             ELSE IF Contains(net, ip) THEN Some(cidrs[i])
             ELSE MatchFromAbort(ip, cidrs, i + 1)

\* for cidr in cidrs: try: if ip in ip_network(cidr, strict=False): return True
\*                    except ValueError: logger.debug(...)
\* the entry that matched, or None when the loop runs out
RECURSIVE MatchFrom(_, _, _)
MatchFrom(ip, cidrs, i) ==
    IF i > Len(cidrs) THEN None
    ELSE LET net == ip_network(cidrs[i])
         IN  IF ~net.ok THEN MatchFrom(ip, cidrs, i + 1)
             ELSE IF Contains(net, ip) THEN Some(cidrs[i])
             ELSE MatchFrom(ip, cidrs, i + 1)

Outcome(trusted, parsed, log, matched) ==
    [trusted |-> trusted, parsed |-> parsed, log |-> log, matched |-> matched]

IsInternalWith(request, cidrs) ==
    LET client_host == IF request.client # None THEN Some(request.client[1].host) ELSE None
    IN  IF Falsy(client_host) THEN Outcome(FALSE, FALSE, "none", None)
        ELSE IF client_host[1] \in LocalhostNames THEN Outcome(TRUE, FALSE, "none", None)
        ELSE LET ip == ip_address(client_host[1])
             IN  IF ~ip.ok THEN Outcome(FALSE, TRUE, "warning", None)
                 ELSE LET m == MatchFrom(ip, cidrs, 1)
                      IN  IF m # None THEN Outcome(TRUE, TRUE, "info", m)
                          ELSE Outcome(FALSE, TRUE, "none", None)

is_internal_request(request) == IsInternalWith(request, _get_allowed_cidrs)

----
(* the inputs of the classifier run *)

MaxEnvLen == 3

NotACidr == Name("not-a-cidr")

EnvChunks == {
    Comma, Space,
    Cidr(V4(203, 0, 113, 0), 24),
    Cidr(V4(203, 0, 113, 77), 24),
    Cidr(V4(8, 8, 8, 0), 33),
    V4(8, 8, 8, 8),
    NotACidr }

EnvStrings == UNION {[1..n -> EnvChunks] : n \in 0..MaxEnvLen}

ClientHosts == {
    Name(""), Name("localhost"), Name("LOCALHOST"), Name("example.com"),
    V4(127, 0, 0, 1), V4(10, 1, 2, 3), V4(172, 20, 0, 5), V4(172, 32, 0, 1),
    V4(192, 168, 1, 1), V4(100, 64, 0, 1), V4(100, 128, 0, 1),
    V4(8, 8, 8, 8), V4(8, 8, 8, 9), V4(203, 0, 113, 5), V4(203, 0, 114, 5),
    V4(256, 0, 0, 1), Text("v4", "", <<10, 0, 0>>, NoSlash), Cidr(V4(10, 0, 0, 1), 8),
    V6(<<0, 0, 0, 0, 0, 0, 0, 1>>), V6(<<0, 0, 0, 0, 0, 0, 0, 2>>),
    V6(<<0, 0, 0, 0, 0, 65535, 2560, 1>>) }

\* request.client is None when the transport supplies no peer address
Requests == {Request(None)} \cup {Request(Some(Address(h))) : h \in ClientHosts}

----
(* credential_service: the secret store behind get_credential *)

MaxEpoch == 2

StoreKeys == <<"OPENAI_API_KEY", "OPENAI_MODEL", "DOCUMENT_AGENT_MODEL", "RAG_AGENT_MODEL",
               "TASK_AGENT_MODEL", "AGENT_RATE_LIMIT_ENABLED", "AGENT_MAX_RETRIES", "LOG_LEVEL">>

Ord(key) == CHOOSE i \in 1..Len(StoreKeys) : StoreKeys[i] = key

\* what the store holds for key after e changes: nothing, an empty string or a
\* non-empty string; every key goes through the three, out of step with its
\* neighbours
StoreAt(e, key) ==
    LET n == (e + Ord(key)) % 3
    IN  IF n = 1 THEN None ELSE IF n = 2 THEN Some("") ELSE Some("stored")

\* await credential_service.get_credential(key, default=...), when it returns
get_credential(key, default, e) ==
    IF StoreAt(e, key) # None THEN StoreAt(e, key) ELSE default

----
(* the profiles of the two endpoints *)

Entry(key, decrypt, default, override) ==
    [key |-> key, decrypt |-> decrypt, default |-> default, override |-> override]

\* variant: AGENT_MAX_RETRIES is declared without its default
AgentsEntriesNoDefault == <<
    Entry("OPENAI_API_KEY", TRUE, None, FALSE),
    Entry("OPENAI_MODEL", FALSE, Some("gpt-4o-mini"), FALSE),
    Entry("DOCUMENT_AGENT_MODEL", FALSE, Some("openai:gpt-4o"), FALSE),
    Entry("RAG_AGENT_MODEL", FALSE, Some("openai:gpt-4o-mini"), FALSE),
    Entry("TASK_AGENT_MODEL", FALSE, Some("openai:gpt-4o"), FALSE),
    Entry("AGENT_RATE_LIMIT_ENABLED", FALSE, Some("true"), FALSE),
    Entry("AGENT_MAX_RETRIES", FALSE, None, FALSE),
    Entry("MCP_SERVICE_URL", FALSE, None, TRUE),
    Entry("LOG_LEVEL", FALSE, Some("INFO"), FALSE) >>

AgentsEntries == <<
    Entry("OPENAI_API_KEY", TRUE, None, FALSE),
    Entry("OPENAI_MODEL", FALSE, Some("gpt-4o-mini"), FALSE),
    Entry("DOCUMENT_AGENT_MODEL", FALSE, Some("openai:gpt-4o"), FALSE),
    Entry("RAG_AGENT_MODEL", FALSE, Some("openai:gpt-4o-mini"), FALSE),
    Entry("TASK_AGENT_MODEL", FALSE, Some("openai:gpt-4o"), FALSE),
    Entry("AGENT_RATE_LIMIT_ENABLED", FALSE, Some("true"), FALSE),
    Entry("AGENT_MAX_RETRIES", FALSE, Some("3"), FALSE),
    Entry("MCP_SERVICE_URL", FALSE, None, TRUE),
    Entry("LOG_LEVEL", FALSE, Some("INFO"), FALSE) >>

McpEntries == << Entry("LOG_LEVEL", FALSE, Some("INFO"), FALSE) >>

Endpoints == {"agents", "mcp"}

EntriesOf(endpoint) == IF endpoint = "agents" THEN AgentsEntries ELSE McpEntries

\* f"http://archon-mcp:{os.getenv('ARCHON_MCP_PORT')}"
McpServiceUrl(port) ==
    IF port = None THEN Some("http://archon-mcp:None") ELSE Some("http://archon-mcp:8051")

Item(key, value) == [key |-> key, value |-> value]

\* variant: the dict is returned as built, None values included
FilterNothing(endpoint, credentials) == credentials

\* {k: v for k, v in credentials.items() if v is not None}, agents endpoint only
FilterNone(endpoint, credentials) ==
    IF endpoint = "agents"
    THEN SelectSeq(credentials, LAMBDA it : it.value # None)
    ELSE credentials

\* the dict display is evaluated left to right: entries computed without the
\* store are added until the next get_credential call (returned as idx) or the
\* end of the display (idx = Len + 1)
RECURSIVE EvalFrom(_, _, _, _)
EvalFrom(entries, i, credentials, port) ==
    IF i > Len(entries) THEN [idx |-> i, credentials |-> credentials]
    ELSE IF entries[i].override
        THEN EvalFrom(entries, i + 1,
                      Append(credentials, Item(entries[i].key, McpServiceUrl(port))), port)
    ELSE [idx |-> i, credentials |-> credentials]

Response(status, detail, body) == [status |-> status, detail |-> detail, body |-> body]

Forbidden == Response(403, "Access forbidden", None)
StoreFailure == Response(500, "Failed to retrieve credentials", None)
\* an exception no handler catches: the framework answers 500
Unhandled == Response(500, "Internal Server Error", None)

\* logger.warning(f"... from {request.client.host}"); raise HTTPException(403)
Deny(request) == IF request.client = None THEN Unhandled ELSE Forbidden

\* logger.info(f"... from {request.client.host}"); return credentials
\* (inside the try: an exception here is caught and answered with 500)
ReturnBundle(endpoint, request, credentials) ==
    IF request.client = None THEN StoreFailure
    ELSE Response(200, "", Some(FilterNone(endpoint, credentials)))

----
(* the requests *)

\* two requests in flight at a time
Procs == {1, 2}

\* what one await of get_credential came back with, and when
Answer(raised, value, e) == [raised |-> raised, value |-> value, epoch |-> e]

\* variant: the dict under construction is one object shared by all requests
RunFromShared(r, i, credentials) ==
    LET e == req'[r][1].endpoint
        at == EvalFrom(EntriesOf(e), i, credentials, mcpPort)
    IN  IF at.idx <= Len(EntriesOf(e))
        THEN /\ pc' = [pc EXCEPT ![r] = "awaiting"]
             /\ idx' = [idx EXCEPT ![r] = at.idx]
             /\ acc' = [s \in Procs |-> at.credentials]
             /\ issued' = [issued EXCEPT ![r] = Append(@, EntriesOf(e)[at.idx].key)]
             /\ resp' = resp
        ELSE /\ pc' = [pc EXCEPT ![r] = "done"]
             /\ idx' = [idx EXCEPT ![r] = at.idx]
             /\ acc' = [s \in Procs |-> at.credentials]
             /\ issued' = issued
             /\ resp' = [resp EXCEPT ![r] =
                            Some(ReturnBundle(e, req'[r][1].request, at.credentials))]

\* the handler of r runs from position i until it suspends or returns
RunFrom(r, i, credentials) ==
    LET e == req'[r][1].endpoint
        at == EvalFrom(EntriesOf(e), i, credentials, mcpPort)
    IN  IF at.idx <= Len(EntriesOf(e))
        THEN /\ pc' = [pc EXCEPT ![r] = "awaiting"]
             /\ idx' = [idx EXCEPT ![r] = at.idx]
             /\ acc' = [acc EXCEPT ![r] = at.credentials]
             /\ issued' = [issued EXCEPT ![r] = Append(@, EntriesOf(e)[at.idx].key)]
             /\ resp' = resp
        ELSE /\ pc' = [pc EXCEPT ![r] = "done"]
             /\ idx' = [idx EXCEPT ![r] = at.idx]
             /\ acc' = [acc EXCEPT ![r] = at.credentials]
             /\ issued' = issued
             /\ resp' = [resp EXCEPT ![r] =
                            Some(ReturnBundle(e, req'[r][1].request, at.credentials))]

\* variant: the handler starts on the credentials without the origin check
ReceiveUnchecked(r, e, q) ==
    /\ pc[r] = "idle"
    /\ req' = [req EXCEPT ![r] = Some([endpoint |-> e, request |-> q])]
    /\ RunFrom(r, 1, <<>>)
    /\ UNCHANGED <<env, mcpPort, probe, verdict, epoch, answers>>

\* request q arrives at endpoint e: the handler runs the origin check and, when
\* approved, goes on to its first await
Receive(r, e, q) ==
    /\ pc[r] = "idle"
    /\ req' = [req EXCEPT ![r] = Some([endpoint |-> e, request |-> q])]
    /\ IF ~is_internal_request(q).trusted
       THEN /\ resp' = [resp EXCEPT ![r] = Some(Deny(q))]
            /\ pc' = [pc EXCEPT ![r] = "done"]
            /\ UNCHANGED <<idx, acc, issued>>
       ELSE RunFrom(r, 1, <<>>)
    /\ UNCHANGED <<env, mcpPort, probe, verdict, epoch, answers>>

\* variant: the failure is swallowed, the keys resolved so far are returned
ResumeRaisePartial(r) ==
    /\ pc[r] = "awaiting"
    /\ answers' = [answers EXCEPT ![r] = Append(@, Answer(TRUE, None, epoch))]
    /\ resp' = [resp EXCEPT ![r] =
                    Some(Response(200, "", Some(FilterNone(req[r][1].endpoint, acc[r]))))]
    /\ pc' = [pc EXCEPT ![r] = "done"]
    /\ UNCHANGED <<env, mcpPort, probe, verdict, epoch, req, idx, acc, issued>>

\* variant: the failure of one key is logged and the next key is queried
ResumeRaiseContinue(r) ==
    /\ pc[r] = "awaiting"
    /\ answers' = [answers EXCEPT ![r] = Append(@, Answer(TRUE, None, epoch))]
    /\ req' = req
    /\ RunFrom(r, idx[r] + 1, acc[r])
    /\ UNCHANGED <<env, mcpPort, probe, verdict, epoch>>

\* the awaited get_credential raises: except Exception -> HTTPException(500)
ResumeRaise(r) ==
    /\ pc[r] = "awaiting"
    /\ answers' = [answers EXCEPT ![r] = Append(@, Answer(TRUE, None, epoch))]
    /\ resp' = [resp EXCEPT ![r] = Some(StoreFailure)]
    /\ pc' = [pc EXCEPT ![r] = "done"]
    /\ UNCHANGED <<env, mcpPort, probe, verdict, epoch, req, idx, acc, issued>>

\* the awaited get_credential returns: the value enters the dict and the
\* handler runs on to its next await or to its return
ResumeValue(r) ==
    /\ pc[r] = "awaiting"
    /\ LET entry == EntriesOf(req[r][1].endpoint)[idx[r]]
           v == get_credential(entry.key, entry.default, epoch)
       IN  /\ answers' = [answers EXCEPT ![r] = Append(@, Answer(FALSE, v, epoch))]
           /\ req' = req
           /\ RunFrom(r, idx[r] + 1, Append(acc[r], Item(entry.key, v)))
    /\ UNCHANGED <<env, mcpPort, probe, verdict, epoch>>

\* the contents of the store change between two calls
StoreChange ==
    /\ epoch < MaxEpoch
    /\ epoch' = epoch + 1
    /\ UNCHANGED <<env, mcpPort, probe, verdict, req, pc, idx, acc, issued, answers, resp>>

Idle ==
    /\ req = [r \in Procs |-> None]
    /\ pc = [r \in Procs |-> "idle"]
    /\ idx = [r \in Procs |-> 0]
    /\ acc = [r \in Procs |-> <<>>]
    /\ issued = [r \in Procs |-> <<>>]
    /\ answers = [r \in Procs |-> <<>>]
    /\ resp = [r \in Procs |-> None]

ExtendedEnv == <<NotACidr, Comma, Space, Cidr(V4(203, 0, 113, 0), 24)>>

\* concurrent requests: one caller inside the baseline, one outside every range
ConcurrentRequests == {Request(Some(Address(V4(10, 1, 2, 3)))),
                       Request(Some(Address(V4(8, 8, 8, 8))))}

Init ==
    /\ env = <<>>
    /\ mcpPort = Some("8051")
    /\ probe = Request(None)
    /\ verdict = None
    /\ epoch = 0
    /\ Idle

Next ==
    \/ \E r \in Procs, e \in Endpoints, q \in ConcurrentRequests : Receive(r, e, q)
    \/ \E r \in Procs : ResumeRaise(r)
    \/ \E r \in Procs : ResumeValue(r)
    \/ StoreChange

Spec == Init /\ [][Next]_vars

----
(* one request at a time, from every kind of caller *)

InitServe ==
    /\ env \in {<<>>, ExtendedEnv}
    /\ mcpPort \in {None, Some("8051")}
    /\ probe = Request(None)
    /\ verdict = None
    /\ epoch = 0
    /\ Idle

NextServe ==
    \/ \E e \in Endpoints, q \in Requests : Receive(1, e, q)
    \/ ResumeRaise(1)
    \/ ResumeValue(1)
    \/ StoreChange

SpecServe == InitServe /\ [][NextServe]_vars

----
(* the classifier on its own: is_internal_request applied to one request *)

Classify ==
    /\ verdict = None
    /\ verdict' = Some(is_internal_request(probe))
    /\ UNCHANGED <<env, mcpPort, probe, epoch, req, pc, idx, acc, issued, answers, resp>>

InitClassify ==
    /\ env \in EnvStrings
    /\ mcpPort = None
    /\ probe \in Requests
    /\ verdict = None
    /\ epoch = 0
    /\ Idle

NextClassify == Classify

SpecClassify == InitClassify /\ [][NextClassify]_vars

----
(* properties of the origin check, stated without the code's arithmetic *)

Classified == verdict # None
Trusted == verdict[1].trusted
HasHost == probe.client # None
HostText == probe.client[1].host

IsLiteralOf(t, form, count, top) ==
    /\ t.form = form
    /\ t.prefix = NoSlash
    /\ Len(t.parts) = count
    /\ \A i \in 1..Len(t.parts) : 0 <= t.parts[i] /\ t.parts[i] <= top

IsIpLiteral(t) == IsLiteralOf(t, "v4", 4, 255) \/ IsLiteralOf(t, "v6", 8, 65535)

WellFormedRange(c) ==
    \/ /\ IsLiteralOf(Cidr(c, NoSlash), "v4", 4, 255)
       /\ c.prefix = NoSlash \/ (0 <= c.prefix /\ c.prefix <= 32)
    \/ /\ IsLiteralOf(Cidr(c, NoSlash), "v6", 8, 65535)
       /\ c.prefix = NoSlash \/ (0 <= c.prefix /\ c.prefix <= 128)

\* bit k (1 = most significant) of an address written as groups of w bits
BitOf(parts, w, k) ==
    LET g == ((k - 1) \div w) + 1
        pos == (k - 1) % w
    IN  (parts[g] \div Pow2(w - 1 - pos)) % 2

\* the address and the range agree on the first prefix-length bits
LiesInside(h, c) ==
    /\ h.form = c.form
    /\ LET w == IF h.form = "v4" THEN 8 ELSE 16
           p == IF c.prefix = NoSlash THEN w * Len(c.parts) ELSE c.prefix
       IN  \A k \in 1..p : BitOf(h.parts, w, k) = BitOf(c.parts, w, k)

InSomeRange(h, cidrs) ==
    \E i \in 1..Len(cidrs) : WellFormedRange(cidrs[i]) /\ LiesInside(h, cidrs[i])

Reverse(s) == [i \in 1..Len(s) |-> s[Len(s) + 1 - i]]

RangeTexts == EnvChunks \ {Comma, Space}

\* C3: for a client address that is an IP literal, is_internal_request answers
\* true exactly when the address lies inside a well-formed range of the
\* allow-set; the answer is the same with the allow-set reversed or with every
\* range repeated, and an address the baseline trusts stays trusted whatever
\* range is appended to the extension
LiteralTrustedIffInRange ==
    (Classified /\ HasHost /\ IsIpLiteral(HostText)) =>
        /\ Trusted = InSomeRange(HostText, _get_allowed_cidrs)
        /\ Trusted = IsInternalWith(probe, Reverse(_get_allowed_cidrs)).trusted
        /\ Trusted = IsInternalWith(probe, _get_allowed_cidrs \o _get_allowed_cidrs).trusted
        /\ IsInternalWith(probe, DEFAULT_ALLOWED_CIDRS).trusted =>
             /\ Trusted
             /\ \A c \in RangeTexts :
                    IsInternalWith(probe, AllowedCidrsOf(env \o <<Comma, c>>)).trusted

\* an address outside the baseline is trusted through an extension range whose
\* text has host bits set
ExtensionRangeMatched ==
    /\ Classified /\ HasHost /\ IsIpLiteral(HostText)
    /\ Trusted
    /\ verdict[1].matched = Some(Cidr(V4(203, 0, 113, 77), 24))

\* C4: a client address that is absent, empty or no IP literal is denied
\* whatever the allow-set holds, except the exact string "localhost", which is
\* trusted without being parsed and with any allow-set
NonLiteralDeniedExceptLocalhost ==
    (Classified /\ (~HasHost \/ ~IsIpLiteral(HostText))) =>
        /\ Trusted = (HasHost /\ HostText = Name("localhost"))
        /\ Trusted => /\ ~verdict[1].parsed
                      /\ IsInternalWith(probe, <<>>).trusted
        /\ (HasHost /\ HostText # Name("") /\ ~Trusted) => verdict[1].log = "warning"

LocalhostTrustedUnparsed ==
    /\ Classified /\ HasHost
    /\ HostText = Name("localhost")
    /\ Trusted /\ ~verdict[1].parsed
    /\ env # <<>>

\* C5: a malformed range never aborts the check: for every client address and
\* extension the check answers a boolean, and the answer is the one obtained
\* from the allow-set with its malformed entries taken out
MalformedRangeSkipped ==
    /\ is_internal_request(probe).trusted \in BOOLEAN
    /\ Classified =>
        /\ Trusted \in BOOLEAN
        /\ Trusted = IsInternalWith(probe,
                        SelectSeq(_get_allowed_cidrs, WellFormedRange)).trusted

\* the extension holds a malformed entry ahead of the range that matched
MatchAfterMalformedEntry ==
    /\ Classified /\ Trusted
    /\ Len(ExtraCidrs(env)) = 2
    /\ ~WellFormedRange(ExtraCidrs(env)[1])
    /\ verdict[1].matched = Some(ExtraCidrs(env)[2])

----
(* properties of the credential endpoints *)

Arrived(r) == req[r] # None
EndpointOf(r) == req[r][1].endpoint
RequestOf(r) == req[r][1].request
Approved(r) == is_internal_request(RequestOf(r)).trusted
Answered(r) == resp[r] # None
Reply(r) == resp[r][1]
Returned200(r) == Answered(r) /\ Reply(r).status = 200
BundleOf(r) == Reply(r).body[1]
Raised(r) == \E n \in 1..Len(answers[r]) : answers[r][n].raised
KeysOf(items) == {items[i].key : i \in 1..Len(items)}
ItemsOf(items) == {items[i] : i \in 1..Len(items)}
Declared(r) == EntriesOf(EndpointOf(r))

\* C1: when the store fails on a key of an approved request, the request is
\* answered with status 500 and without any bundle
StoreFailureAnswers500 ==
    \A r \in Procs :
        Raised(r) => /\ Approved(r)
                     /\ Answered(r)
                     /\ Reply(r).status = 500
                     /\ Reply(r).body = None

\* the store fails on the third key, after two keys resolved to values
FailureAfterResolvedKeys ==
    \E r \in Procs :
        /\ Arrived(r) /\ EndpointOf(r) = "agents"
        /\ Len(answers[r]) = 3 /\ answers[r][3].raised
        /\ answers[r][1].value # None /\ answers[r][2].value # None
        /\ Answered(r) /\ Reply(r).status = 500

\* C2: every request the origin check denies is answered with status 403 and
\* without a bundle
DeniedAnswers403 ==
    \A r \in Procs :
        (Answered(r) /\ ~Approved(r)) => /\ Reply(r).status = 403
                                         /\ Reply(r).body = None

\* C6 as stated: a bundle returned with status 200 holds no null and no empty
\* value
BundleHasNoNullOrEmpty ==
    \A r \in Procs :
        Returned200(r) =>
            \A i \in 1..Len(BundleOf(r)) :
                BundleOf(r)[i].value # None /\ BundleOf(r)[i].value # Some("")

\* C6: a bundle returned with status 200 holds no null value, and a key for
\* which the store held nothing and no default is declared is not in it
BundleHasNoNull ==
    \A r \in Procs :
        Returned200(r) =>
            /\ \A i \in 1..Len(BundleOf(r)) : BundleOf(r)[i].value # None
            /\ \A j \in 1..Len(Declared(r)) : \A n \in 1..Len(issued[r]) :
                   ( /\ issued[r][n] = Declared(r)[j].key
                     /\ Declared(r)[j].default = None
                     /\ StoreAt(answers[r][n].epoch, issued[r][n]) = None )
                   => issued[r][n] \notin KeysOf(BundleOf(r))

\* a bundle without OPENAI_API_KEY, for which the store held nothing
BundleOmitsUnsetKey ==
    \E r \in Procs :
        /\ Returned200(r) /\ EndpointOf(r) = "agents"
        /\ StoreAt(answers[r][1].epoch, "OPENAI_API_KEY") = None
        /\ "OPENAI_API_KEY" \notin KeysOf(BundleOf(r))
        /\ Len(BundleOf(r)) = 8

\* C7: in a bundle returned with status 200 every declared key follows one
\* rule: the override value without a store query; else the value the store
\* held; else the declared default ("3" for AGENT_MAX_RETRIES); else no entry.
\* No key is outside the declared list and none is repeated
ResolvedByRule ==
    \A r \in Procs :
        Returned200(r) =>
            /\ KeysOf(BundleOf(r)) \subseteq KeysOf(Declared(r))
            /\ \A i, j \in 1..Len(BundleOf(r)) :
                   BundleOf(r)[i].key = BundleOf(r)[j].key => i = j
            /\ \A j \in 1..Len(Declared(r)) :
                   LET d == Declared(r)[j]
                   IN  IF d.override
                       THEN /\ d.key \notin KeysOf([n \in 1..Len(issued[r]) |-> [key |-> issued[r][n]]])
                            /\ Item(d.key, McpServiceUrl(mcpPort)) \in ItemsOf(BundleOf(r))
                       ELSE \E n \in 1..Len(issued[r]) :
                            /\ issued[r][n] = d.key
                            /\ LET held == StoreAt(answers[r][n].epoch, d.key)
                               IN  IF held # None
                                       THEN Item(d.key, held) \in ItemsOf(BundleOf(r))
                                   ELSE IF d.default # None
                                       THEN Item(d.key, d.default) \in ItemsOf(BundleOf(r))
                                   ELSE d.key \notin KeysOf(BundleOf(r))
            /\ (EndpointOf(r) = "agents"
                  /\ StoreAt(answers[r][7].epoch, "AGENT_MAX_RETRIES") = None)
               => Item("AGENT_MAX_RETRIES", Some("3")) \in ItemsOf(BundleOf(r))

\* a bundle with the default of AGENT_MAX_RETRIES, a value from the store and
\* the override
BundleWithDefaultStoredAndOverride ==
    \E r \in Procs :
        /\ Returned200(r) /\ EndpointOf(r) = "agents"
        /\ StoreAt(answers[r][7].epoch, "AGENT_MAX_RETRIES") = None
        /\ Item("AGENT_MAX_RETRIES", Some("3")) \in ItemsOf(BundleOf(r))
        /\ Item("LOG_LEVEL", Some("stored")) \in ItemsOf(BundleOf(r))
        /\ Item("MCP_SERVICE_URL", Some("http://archon-mcp:None")) \in ItemsOf(BundleOf(r))

\* C9: the store is queried only for a request the origin check approved; a
\* denied request issues no query
NoQueryWithoutApproval ==
    \A r \in Procs :
        /\ (issued[r] # <<>> \/ answers[r] # <<>>) => (Arrived(r) /\ Approved(r))
        /\ (Arrived(r) /\ ~Approved(r)) => (issued[r] = <<>> /\ answers[r] = <<>>)

DeniedWithoutQuery ==
    \E r \in Procs :
        /\ Answered(r) /\ Reply(r).status = 403
        /\ RequestOf(r) = Request(Some(Address(V4(8, 8, 8, 8))))
        /\ issued[r] = <<>>

\* the keys of a profile that are read from the store, in declared order
QueryOrder(r) ==
    LET stored == SelectSeq(Declared(r), LAMBDA d : ~d.override)
    IN  [n \in 1..Len(stored) |-> stored[n].key]

\* C10: the queries of a request are issued one at a time in the declared key
\* order; status 200 is answered only after every query of the profile
\* returned; after a query failed the request issues no further query
QueriesInOrderShortCircuit ==
    \A r \in Procs :
        Arrived(r) =>
            /\ Len(issued[r]) <= Len(QueryOrder(r))
            /\ issued[r] = SubSeq(QueryOrder(r), 1, Len(issued[r]))
            /\ pc[r] = "awaiting" => Len(issued[r]) = Len(answers[r]) + 1
            /\ pc[r] = "done" => Len(issued[r]) = Len(answers[r])
            /\ Returned200(r) => (issued[r] = QueryOrder(r) /\ ~Raised(r))
            /\ \A n \in 1..Len(answers[r]) :
                   answers[r][n].raised =>
                       (n = Len(answers[r]) /\ n = Len(issued[r]) /\ pc[r] = "done")

\* the fourth query failed: four keys were queried and the request is over
FourthQueryFailed ==
    \E r \in Procs :
        /\ Arrived(r) /\ EndpointOf(r) = "agents"
        /\ Len(answers[r]) = 4 /\ answers[r][4].raised
        /\ issued[r] = SubSeq(QueryOrder(r), 1, 4)
        /\ pc[r] = "done"

\* every item is a key of r's own profile with the override value or the
\* value one of r's own queries returned
OwnItems(r, items) ==
    \A i \in 1..Len(items) :
        \E j \in 1..Len(Declared(r)) :
            /\ Declared(r)[j].key = items[i].key
            /\ IF Declared(r)[j].override
               THEN items[i].value = McpServiceUrl(mcpPort)
               ELSE \E n \in 1..Len(answers[r]) :
                        /\ issued[r][n] = items[i].key
                        /\ ~answers[r][n].raised
                        /\ answers[r][n].value = items[i].value

\* C8: with requests interleaved at their awaits, the dict a request builds and
\* the bundle it returns hold only keys of its own profile with the values its
\* own queries returned, every value its queries returned is in its bundle, and
\* a request is answered with the store failure exactly when one of its own
\* queries failed
RequestsIsolated ==
    \A r \in Procs :
        Arrived(r) =>
            /\ OwnItems(r, acc[r])
            /\ \A n \in 1..Len(answers[r]) :
                   ~answers[r][n].raised =>
                       Item(issued[r][n], answers[r][n].value) \in ItemsOf(acc[r])
            /\ Returned200(r) =>
                   /\ OwnItems(r, BundleOf(r))
                   /\ BundleOf(r) = FilterNone(EndpointOf(r), acc[r])
                   /\ Len(answers[r]) = Len(QueryOrder(r))
            /\ Raised(r) <=> (Answered(r) /\ Reply(r) = StoreFailure)

\* request 2 was served from start to end while request 1, of the other
\* profile, was in flight, and request 1 then failed
ServedWhileOtherFailed ==
    /\ Arrived(1) /\ EndpointOf(1) = "agents"
    /\ Len(answers[1]) >= 2
    /\ answers[1][1].epoch = 0
    /\ answers[1][Len(answers[1])].raised
    /\ answers[1][Len(answers[1])].epoch = 2
    /\ Arrived(2) /\ EndpointOf(2) = "mcp"
    /\ Returned200(2)
    /\ answers[2][1].epoch = 1

====
